---- MODULE Spec2Model ----
(***************************************************************************)
(* mozext: pushlog synchronisation, batch commands and remote-ref          *)
(* reconciliation of hgext/mozext/__init__.py, as a state machine.         *)
(*                                                                         *)
(* State: the local changelog, the Push table of the change tracker, the   *)
(* remoterefs file, the changeset-bug table, how much of its pushlog each  *)
(* remote has produced so far, and the outcome of the last operation.      *)
(***************************************************************************)
EXTENDS Integers, Sequences, FiniteSets, TLC

VARIABLES changelog, pushes, reffile, bugs, rlen, last, wlock, proc, session

vars == <<changelog, pushes, reffile, bugs, rlen, last, wlock, proc, session>>

\* The write lock, the running hg processes and the templater's session.
runtime == <<wlock, proc, session>>

(***************************************************************************)
(* Bounds                                                                  *)
(***************************************************************************)
\* Number of changesets in the revision graph.
MaxNode == 3

Nodes == 1..MaxNode

(***************************************************************************)
(* Generic helpers                                                         *)
(***************************************************************************)
Range(s) == {s[i] : i \in DOMAIN s}

SetMax(S) == CHOOSE x \in S : \A y \in S : y <= x

SetMin(S) == CHOOSE x \in S : \A y \in S : x <= y

RECURSIVE SortedSeq(_)
SortedSeq(S) == IF S = {} THEN <<>> ELSE <<SetMin(S)>> \o SortedSeq(S \ {SetMin(S)})

\* str.startswith / str.endswith on strings given as sequences of symbols.
StartsWith(s, p) == Len(p) <= Len(s) /\ SubSeq(s, 1, Len(p)) = p

EndsWith(s, p) == Len(p) <= Len(s) /\ SubSeq(s, Len(s) - Len(p) + 1, Len(s)) = p

(***************************************************************************)
(* RevisionGraph (host): node 1 is the root, every even node above 2 is a  *)
(* merge of the two nodes before it, every odd node forks from two back.   *)
(***************************************************************************)
Parents(n) ==
    IF n = 1 THEN {}
    ELSE IF n = 2 THEN {1}
    ELSE IF n % 2 = 0 THEN {n - 1, n - 2}
    ELSE {n - 2}

RECURSIVE Ancestors(_)
Ancestors(n) == {n} \cup UNION {Ancestors(p) : p \in Parents(n)}

Known(cl) == Range(cl)

\* ctx.rev(): the 0-based position of a known node in the changelog.
RevOf(cl, n) == (CHOOSE i \in DOMAIN cl : cl[i] = n) - 1

(***************************************************************************)
(* Known trees (mozautomation.repository)                                  *)
(***************************************************************************)
REPOS == {"b2g18", "b2g18_v1_0_0", "beta", "central", "try"}

RELEASES == {"beta"}

NoTree == "<none>"

OtherUrl == "https://example.com/repo"

Urls == REPOS \cup {OtherUrl}

resolve_uri_to_tree(url) == IF url \in REPOS THEN url ELSE NoTree

(***************************************************************************)
(* The remote authority: each tree's pushlog, of which the first rlen[t]   *)
(* pushes have happened.  Push ids strictly increase.                      *)
(***************************************************************************)
Push(id, who, when, nodes) == [pushid |-> id, who |-> who, when |-> when, nodes |-> nodes]

CentralLog ==
    [i \in 1..(MaxNode - 1) |->
        IF i = 1 THEN Push(1, "alice", 20, <<1>>)
        ELSE IF i = 2 THEN Push(2, "bob", 40, <<2, 3>>)
        ELSE Push(i, "carol", 20 * i, <<i + 1>>)]

BetaLog ==
    << Push(2, "dave", 10, <<1>>), Push(4, "erin", 50, <<3>>), Push(6, "dave", 70, <<2>>) >>

FullLog(t) ==
    CASE t = "central" -> CentralLog
      [] t = "beta" -> BetaLog
      [] OTHER -> << Push(1, "frank", 30, SortedSeq(Nodes)) >>

RemoteLog(rl, t) == SubSeq(FullLog(t), 1, rl[t])

RemoteNodes(rl, url) ==
    IF url \in REPOS
    THEN UNION {Range(RemoteLog(rl, url)[i].nodes) : i \in 1..rl[url]}
    ELSE Nodes

\* A line of the response: either a push record or free text.
TextLine(text) == [wf |-> FALSE, text |-> text, pushid |-> 0, who |-> "", when |-> 0, nodes |-> <<>>]

PushLine(p) == [wf |-> TRUE, text |-> <<"push">>, pushid |-> p.pushid, who |-> p.who,
                when |-> p.when, nodes |-> p.nodes]

RECURSIVE LinesFrom(_, _)
LinesFrom(log, firstpush) ==
    IF log = <<>> THEN <<>>
    ELSE (IF Head(log).pushid >= firstpush THEN <<PushLine(Head(log))>> ELSE <<>>)
         \o LinesFrom(Tail(log), firstpush)

ResponseKinds == {"ok", "fail", "failbare", "unexpected", "ten", "blank", "empty", "garbled"}

\* What the remote answers to pushlog firstpush=N, by kind of answer.
RemoteResponse(rl, t, firstpush, kind) ==
    CASE kind = "ok" -> <<TextLine(<<"1">>)>> \o LinesFrom(RemoteLog(rl, t), firstpush)
      [] kind = "fail" -> <<TextLine(<<"0", " ", "error">>), TextLine(<<"boom">>)>>
      [] kind = "failbare" -> <<TextLine(<<"0">>)>>
      [] kind = "unexpected" -> <<TextLine(<<"2">>), TextLine(<<"boom">>)>>
      [] kind = "ten" -> <<TextLine(<<"1", "0">>), TextLine(<<"boom">>)>>
      [] kind = "blank" -> <<TextLine(<<>>), TextLine(<<"boom">>)>>
      [] kind = "empty" -> <<>>
      [] kind = "garbled" -> <<TextLine(<<"1">>)>> \o LinesFrom(RemoteLog(rl, t), firstpush)
                             \o <<TextLine(<<"boom">>)>>

(***************************************************************************)
(* PushLogStore (mozautomation.changetracker): the Push table              *)
(***************************************************************************)
\* The store: the trees in the order they were first recorded, and the Push rows.
NoPushes == [trees |-> <<>>, rows |-> {}]

TreePushIds(st, tree) == {r.pushid : r \in {x \in st.rows : x.tree = tree}}

last_push_id(st, tree) ==
    IF TreePushIds(st, tree) = {} THEN [some |-> FALSE, id |-> 0]
    ELSE [some |-> TRUE, id |-> SetMax(TreePushIds(st, tree))]

Row(tree, p) == [tree |-> tree, pushid |-> p.pushid, who |-> p.who, when |-> p.when, nodes |-> p.nodes]

\* One atomic batch; (tree, push_id) is unique, a clash fails the whole batch.
add_pushes(st, tree, ps) ==
    IF \/ \E i \in DOMAIN ps : ps[i].pushid \in TreePushIds(st, tree)
       \/ \E i, j \in DOMAIN ps : i # j /\ ps[i].pushid = ps[j].pushid
    THEN [ok |-> FALSE, st |-> st]
    ELSE [ok |-> TRUE,
          st |-> [trees |-> IF tree \in Range(st.trees) THEN st.trees
                            ELSE Append(st.trees, tree),
                  rows |-> st.rows \cup {Row(tree, ps[i]) : i \in DOMAIN ps}]]

(***************************************************************************)
(* exchangepullpushlog                                                     *)
(***************************************************************************)
FetchFrom_SkipOne(lastpushid) == IF lastpushid.some THEN lastpushid.id + 2 ELSE 0

FetchFrom_NoIncrement(lastpushid) == IF lastpushid.some THEN lastpushid.id ELSE 0

FetchFrom(lastpushid) == IF lastpushid.some THEN lastpushid.id + 1 ELSE 0

\* statusline[0] == '0'
IsRemoteError_WholeLine(statusline) == statusline = <<"0">>

IsRemoteError(statusline) == statusline[1] = "0"

\* not (statusline != '1')
IsSuccess(statusline) == statusline = <<"1">>

\* The loop over the record lines: the verified prefix, and how the loop ended.
RECURSIVE ScanLines_Continue(_, _, _)
ScanLines_Continue(lines, cl, acc) ==
    IF lines = <<>> THEN [pushes |-> acc, end |-> "done"]
    ELSE LET line == Head(lines)
         IN IF ~line.wf THEN [pushes |-> acc, end |-> "ValueError"]
            ELSE IF \E i \in DOMAIN line.nodes : line.nodes[i] \notin Known(cl)
            THEN [pushes |-> ScanLines_Continue(Tail(lines), cl, acc).pushes, end |-> "break"]
            ELSE ScanLines_Continue(Tail(lines), cl,
                           Append(acc, Push(line.pushid, line.who, line.when, line.nodes)))

RECURSIVE ScanLines(_, _, _)
ScanLines(lines, cl, acc) ==
    IF lines = <<>> THEN [pushes |-> acc, end |-> "done"]
    ELSE LET line == Head(lines)
         IN IF ~line.wf THEN [pushes |-> acc, end |-> "ValueError"]
            ELSE IF \E i \in DOMAIN line.nodes : line.nodes[i] \notin Known(cl)
            THEN [pushes |-> acc, end |-> "break"]
            ELSE ScanLines(Tail(lines), cl,
                           Append(acc, Push(line.pushid, line.who, line.when, line.nodes)))

NoMsg == <<>>

Outcome(st, raised, msg, warnings, requests, added) ==
    [pushes |-> st, raised |-> raised, msg |-> msg, warnings |-> warnings,
     requests |-> requests, added |-> added]

\* Lines 431-464: the request, the status line, the records, the insert.
FetchPushlog(cl, st, rl, tree, kind) ==
    LET fetchfrom == FetchFrom(last_push_id(st, tree))
        req == << [tree |-> tree, firstpush |-> fetchfrom] >>
        lines == RemoteResponse(rl, tree, fetchfrom, kind)
    IN IF lines = <<>> THEN Outcome(st, "StopIteration", NoMsg, <<>>, req, 0)
       ELSE LET statusline == Head(lines).text
                rest == Tail(lines)
            IN IF statusline = <<>> THEN Outcome(st, "IndexError", NoMsg, <<>>, req, 0)
               ELSE IF IsRemoteError(statusline)
               THEN IF rest = <<>> THEN Outcome(st, "StopIteration", NoMsg, <<>>, req, 0)
                    ELSE Outcome(st, "Abort",
                                 <<"remote error fetching pushlog: ">> \o Head(rest).text,
                                 <<>>, req, 0)
               ELSE IF ~IsSuccess(statusline)
               THEN Outcome(st, "Abort",
                            <<"error fetching pushlog: unexpected response: ">> \o statusline,
                            <<>>, req, 0)
               ELSE LET scan == ScanLines(rest, cl, <<>>)
                        warn == IF scan.end = "break"
                                THEN <<"received pushlog entry for unknown changeset; ignoring">>
                                ELSE <<>>
                    IN IF scan.end = "ValueError"
                       THEN Outcome(st, "ValueError", NoMsg, <<>>, req, 0)
                       ELSE IF scan.pushes = <<>> THEN Outcome(st, "none", NoMsg, warn, req, 0)
                       ELSE LET ins == add_pushes(st, tree, scan.pushes)
                            IN IF ins.ok
                               THEN Outcome(ins.st, "none", NoMsg, warn, req, Len(scan.pushes))
                               ELSE Outcome(st, "StorageError", NoMsg, warn, req, 0)

\* tr: the peer used for the pull.
Transports ==
    { [capable |-> TRUE, ssh |-> FALSE, stepsdone |-> FALSE],
      [capable |-> FALSE, ssh |-> FALSE, stepsdone |-> FALSE],
      [capable |-> TRUE, ssh |-> TRUE, stepsdone |-> FALSE],
      [capable |-> FALSE, ssh |-> TRUE, stepsdone |-> FALSE],
      [capable |-> TRUE, ssh |-> FALSE, stepsdone |-> TRUE] }

SshWarning == "cannot fetch pushlog when pulling via ssh://; you should be pulling via https://"

\* not tree or not repo.changetracker or tree == "try"
SkipTree_IndexIgnored(tree, disabled) == tree = NoTree \/ tree = "try"

SkipTree(tree, disabled) == tree = NoTree \/ disabled \/ tree = "try"

exchangepullpushlog(cl, st, rl, url, tr, disabled, kind) ==
    LET tree == resolve_uri_to_tree(url)
    IN IF ~tr.capable THEN Outcome(st, "none", NoMsg, <<>>, <<>>, 0)
       ELSE IF tr.stepsdone THEN Outcome(st, "none", NoMsg, <<>>, <<>>, 0)
       ELSE IF SkipTree(tree, disabled)
       THEN Outcome(st, "none", NoMsg, <<>>, <<>>, 0)
       ELSE IF tr.ssh THEN Outcome(st, "none", NoMsg, <<SshWarning>>, <<>>, 0)
       ELSE FetchPushlog(cl, st, rl, tree, kind)

(***************************************************************************)
(* Remote refs: names are strings, kept as sequences of symbols, so that   *)
(* '%s/%s' % (tree, branch), startswith and endswith are computed.         *)
(***************************************************************************)
TreeName(t) == IF t = "b2g18_v1_0_0" THEN <<"b2g18", "_v1_0_0">> ELSE <<t>>

Default == <<"default">>

RelBranch == <<"GECKO", "20", "_", "2013", "_", "RELBRANCH">>

Feature == <<"feature">>

RefName(tree, branch) == TreeName(tree) \o <<"/">> \o branch

\* remoterefs.__init__: the file's lines whose changeset the changelog resolves.
LoadRefs(file, cl) == [r \in {x \in DOMAIN file : file[x] \in Known(cl)} |-> file[r]]

Excluded_Never(tree, branch) == FALSE

Excluded(tree, branch) == EndsWith(branch, <<"RELBRANCH">>) /\ tree \notin RELEASES

ExistingRefs(refs, tree) == {r \in DOMAIN refs : StartsWith(r, TreeName(tree) \o <<"/">>)}

IncomingBranches(tree, bmap) == {b \in DOMAIN bmap : ~Excluded(tree, b)}

IncomingRefs(tree, bmap) == {RefName(tree, b) : b \in IncomingBranches(tree, bmap)}

\* for node in nodes: self.remoterefs[ref] = node
LastNode_First(nodes) == nodes[1]

LastNode(nodes) == nodes[Len(nodes)]

BranchOfRef(tree, bmap, r) == CHOOSE b \in IncomingBranches(tree, bmap) : RefName(tree, b) = r

\* _update_remote_refs, from the load of the file to remoterefs.write().
update_remote_refs(file, cl, tree, bmap) ==
    LET refs == LoadRefs(file, cl)
        existing_refs == ExistingRefs(refs, tree)
        incoming_refs == IncomingRefs(tree, bmap)
        written == {r \in incoming_refs : bmap[BranchOfRef(tree, bmap, r)] # <<>>}
        keys == (DOMAIN refs \cup written) \ (existing_refs \ incoming_refs)
    IN [r \in keys |-> IF r \in written THEN LastNode(bmap[BranchOfRef(tree, bmap, r)])
                       ELSE refs[r]]

(***************************************************************************)
(* Bug references of a changeset description (commitparser.parse_bugs)     *)
(***************************************************************************)
parse_bugs(n) == IF n = 1 THEN {} ELSE IF n = 3 THEN {7, 8} ELSE {7}

\* ChangeTracker.associate_bugs_with_changeset: the relation is a set of pairs.
associate_bugs_with_changeset(bs, new) == bs \cup new

\* ChangeTracker.wipe_bugs
wipe_bugs(bs) == {}

\* for rev in repo.changelog.revs(old_rev + 1): associate_bugs_with_changeset
PullBugs(cl, old_rev, disabled) ==
    IF disabled THEN {}
    ELSE {<<cl[i], b>> : i \in {j \in DOMAIN cl : j - 1 >= old_rev + 1}, b \in {7, 8}}
         \cap {<<n, b>> \in Nodes \X {7, 8} : b \in parse_bugs(n)}

(***************************************************************************)
(* wrappedpull                                                             *)
(***************************************************************************)
HeadsOf(S) == {n \in S : \A m \in S : n \notin Parents(m)}

\* remote.branchmap() of a remote that has only the default branch.
StaticBranchMap(rl, url) == [b \in {Default} |-> SortedSeq(HeadsOf(RemoteNodes(rl, url)))]

Incoming(cl, rl, url, head) ==
    SortedSeq((Ancestors(head) \cap RemoteNodes(rl, url)) \ Known(cl))

Snapshot == [pushes |-> pushes]

NoRefs == [r \in {} |-> 0]

\* What the last operation was given and what it did.
NoObs ==
    [op |-> "init", url |-> NoTree, tree |-> NoTree,
     tr |-> [capable |-> FALSE, ssh |-> FALSE, stepsdone |-> FALSE], disabled |-> FALSE,
     kind |-> "none", bmap |-> [b \in {} |-> <<>>], orig |-> 0,
     rl |-> [t \in REPOS |-> 0],
     pre |-> [pushes |-> NoPushes],
     raised |-> "none", msg |-> NoMsg, warnings |-> <<>>, requests |-> <<>>, added |-> 0,
     returned |-> TRUE, res |-> 0,
     arg |-> "", exit |-> 0, synced |-> <<>>, out |-> <<>>,
     ctx |-> 0, value |-> [some |-> FALSE, version |-> <<>>], fresh |-> FALSE,
     versions |-> [v \in {} |-> 0],
     x |-> [kind |-> "none", val |-> <<>>], evaluated |-> {},
     namespace |-> "", key |-> <<>>, hooked |-> FALSE,
     input |-> <<>>, subset |-> {}, selected |-> {}, date |-> [lo |-> 0, hi |-> 0],
     first |-> [some |-> FALSE, tree |-> "", who |-> "", when |-> 0, head |-> 0]]

wrappedpull(url, head, tr, disabled, kind, bmap) ==
    LET old_rev == Len(changelog)
        cl == changelog \o Incoming(changelog, rlen, url, head)
        res == Len(cl) - old_rev
        tree == resolve_uri_to_tree(url)
        out == exchangepullpushlog(cl, pushes, rlen, url, tr, disabled, kind)
        obs == [NoObs EXCEPT
                !.op = "pull", !.url = url, !.tree = tree, !.tr = tr, !.disabled = disabled,
                !.kind = IF out.requests = <<>> THEN "none" ELSE kind,
                !.bmap = bmap, !.orig = res, !.rl = rlen, !.pre = Snapshot,
                !.raised = out.raised, !.msg = out.msg, !.warnings = out.warnings,
                !.requests = out.requests, !.added = out.added,
                !.returned = (out.raised = "none"),
                !.res = IF out.raised = "none" THEN res ELSE 0]
    IN /\ head \in RemoteNodes(rlen, url)
       /\ IF out.raised # "none"
          THEN /\ UNCHANGED <<changelog, pushes, reffile, bugs>>
               /\ last' = obs
          ELSE /\ changelog' = cl
               /\ pushes' = out.pushes
               /\ reffile' = IF tree # NoTree
                             THEN update_remote_refs(reffile, cl, tree, bmap)
                             ELSE reffile
               /\ bugs' = associate_bugs_with_changeset(bugs, PullBugs(cl, old_rev, disabled))
               /\ last' = obs
       /\ UNCHANGED <<rlen, runtime>>

(***************************************************************************)
(* The remote receives its next push.                                      *)
(***************************************************************************)
RemoteGrow(t) ==
    /\ rlen[t] < Len(FullLog(t))
    /\ rlen' = [rlen EXCEPT ![t] = rlen[t] + 1]
    /\ UNCHANGED <<changelog, pushes, reffile, bugs, last, runtime>>

(***************************************************************************)
(* hg processes working on the one repository, and the write lock          *)
(***************************************************************************)
Procs == {"p1", "p2"}

NoProc == "free"

NoRun == [pc |-> "idle", url |-> NoTree, bmap |-> [b \in {} |-> <<>>]]

(***************************************************************************)
(* The cache of one templater session: args['cache']                       *)
(***************************************************************************)
ReleaseKinds == {"beta", "release"}

NoSession ==
    [cache |-> [k \in {} |-> <<>>], computed |-> [k \in ReleaseKinds |-> 0],
     refs |-> [loaded |-> FALSE, map |-> NoRefs]]

(***************************************************************************)
(* A new, empty repository; central has had its first push, the other      *)
(* remotes all of theirs.                                                  *)
(***************************************************************************)
Init ==
    /\ changelog = <<>>
    /\ pushes = NoPushes
    /\ reffile = NoRefs
    /\ bugs = {}
    /\ rlen = [t \in REPOS |-> IF t = "central" THEN 1 ELSE Len(FullLog(t))]
    /\ last = NoObs
    /\ wlock = NoProc
    /\ proc = [p \in Procs |-> NoRun]
    /\ session = NoSession

Https == [capable |-> TRUE, ssh |-> FALSE, stepsdone |-> FALSE]

\* The remote answers only when asked: the kinds of answer a pull can meet.
KindsFor(url, tr, disabled, kinds) ==
    IF exchangepullpushlog(changelog, pushes, rlen, url, tr, disabled, "ok").requests = <<>>
    THEN {"ok"}
    ELSE kinds

Grow == \E t \in REPOS : RemoteGrow(t)

\* The fetch protocol: pulls over https, index enabled, of the two trees
\* whose remote has several pushes; the remote has only its default branch.
SyncPull ==
    \E url \in {"beta", "central"}, head \in Nodes :
        \E kind \in KindsFor(url, Https, FALSE, ResponseKinds) :
            wrappedpull(url, head, Https, FALSE, kind, StaticBranchMap(rlen, url))

Next == SyncPull \/ Grow

Spec == Init /\ [][Next]_vars

\* The trigger: every peer, index on or off, every kind of remote.
TriggerKinds == {"ok", "fail", "unexpected", "garbled"}

TriggerPull ==
    \E url \in {"central", "try", OtherUrl}, head \in Nodes, tr \in Transports,
       disabled \in BOOLEAN :
        \E kind \in KindsFor(url, tr, disabled, TriggerKinds) :
            wrappedpull(url, head, tr, disabled, kind, StaticBranchMap(rlen, url))

NextTrigger == TriggerPull

SpecTrigger == Init /\ [][NextTrigger]_vars

(***************************************************************************)
(* Commands: pushlogsync, changesetpushes, buginfo                         *)
(***************************************************************************)
\* sorted(REPOS)
SortedRepos == <<"b2g18", "b2g18_v1_0_0", "beta", "central", "try">>

RELEASE_TREES == {"beta", "central"}

DisabledWarning == "Local database appears to be disabled."

wipe_pushlog(st) == [trees |-> st.trees, rows |-> {}]

\* ChangeTracker.load_pushlog: sync_tree, the same five steps as the post-pull sync.
load_pushlog(cl, st, rl, tree, kind) == FetchPushlog(cl, st, rl, tree, kind)

\* for i, tree in enumerate(sorted(REPOS)): repo.changetracker.load_pushlog(tree)
RECURSIVE SyncTrees(_, _, _, _, _, _)
SyncTrees(todo, cl, st, rl, bad, done) ==
    IF todo = <<>> THEN [pushes |-> st, raised |-> "none", msg |-> NoMsg, synced |-> done]
    ELSE LET tree == Head(todo)
             out == load_pushlog(cl, st, rl, tree, IF tree \in bad THEN "fail" ELSE "ok")
         IN IF out.raised # "none"
            THEN [pushes |-> out.pushes, raised |-> out.raised, msg |-> out.msg,
                  synced |-> Append(done, tree)]
            ELSE SyncTrees(Tail(todo), cl, out.pushes, rl, bad, Append(done, tree))

\* hg pushlogsync [--reset]; bad: the trees whose remote answers with a failure.
syncpushinfo(disabled, reset, bad) ==
    LET obs == [NoObs EXCEPT !.op = "pushlogsync", !.disabled = disabled, !.rl = rlen,
                             !.arg = IF reset THEN "reset" ELSE "", !.pre = Snapshot]
        run == SyncTrees(SortedRepos, changelog, pushes, rlen, bad, <<>>)
    IN /\ IF disabled
          THEN /\ pushes' = pushes
               /\ last' = [obs EXCEPT !.warnings = <<DisabledWarning>>, !.exit = 1]
          ELSE IF reset
          THEN /\ pushes' = wipe_pushlog(pushes)
               /\ last' = obs
          ELSE /\ pushes' = run.pushes
               /\ last' = [obs EXCEPT !.raised = run.raised, !.msg = run.msg,
                                      !.synced = run.synced,
                                      !.returned = (run.raised = "none"),
                                      !.exit = IF run.raised = "none" THEN 0 ELSE 255]
       /\ UNCHANGED <<changelog, reffile, bugs, rlen, runtime>>

\* ChangeTracker.pushes_for_changeset: by tree in discovery order, then by push id.
RECURSIVE RowsByPushId(_)
RowsByPushId(rows) ==
    IF rows = {} THEN <<>>
    ELSE LET r == CHOOSE x \in rows : \A y \in rows : x.pushid <= y.pushid
         IN <<r>> \o RowsByPushId(rows \ {r})

RECURSIVE PushesByTree(_, _, _)
PushesByTree(trees, st, n) ==
    IF trees = <<>> THEN <<>>
    ELSE RowsByPushId({r \in st.rows : r.tree = Head(trees) /\ n \in Range(r.nodes)})
         \o PushesByTree(Tail(trees), st, n)

pushes_for_changeset(st, n) ==
    LET rows == PushesByTree(st.trees, st, n)
    IN [i \in DOMAIN rows |->
          [tree |-> rows[i].tree, pushid |-> rows[i].pushid, when |-> rows[i].when,
           who |-> rows[i].who, head |-> LastNode(rows[i].nodes)]]

\* print_changeset_pushes: what it returns and the pushes it prints.
print_changeset_pushes(disabled, n, all) ==
    LET KeepPush(p) == all \/ p.tree \in RELEASE_TREES
        shown == SelectSeq(pushes_for_changeset(pushes, n), KeepPush)
    IN IF disabled THEN [ret |-> 1, warnings |-> <<DisabledWarning>>, out |-> <<>>]
       ELSE IF shown = <<>>
       THEN [ret |-> 1, warnings |-> <<"No pushes recorded for changeset: ">>, out |-> <<>>]
       ELSE [ret |-> 0, warnings |-> <<>>, out |-> shown]

\* hg changesetpushes [-a] REV: the value of print_changeset_pushes is dropped.
changesetpushes(disabled, n, all) ==
    LET p == print_changeset_pushes(disabled, n, all)
    IN /\ disabled \/ n \in Known(changelog)
       /\ last' = [NoObs EXCEPT !.op = "changesetpushes", !.disabled = disabled, !.rl = rlen,
                                !.arg = IF all THEN "all" ELSE "", !.pre = Snapshot,
                                !.warnings = p.warnings, !.out = p.out, !.exit = 0]
       /\ UNCHANGED <<changelog, pushes, reffile, bugs, rlen, runtime>>

\* sync_bug_database: for rev in self: the bugs parse_bugs finds in each description
AllBugs(cl) == {<<n, b>> \in Known(cl) \X {7, 8} : b \in parse_bugs(n)}

sync_bug_database_Rebuild(bs, cl) == AllBugs(cl)

sync_bug_database(bs, cl) == associate_bugs_with_changeset(bs, AllBugs(cl))

reset_bug_database_NoWipe(bs, cl) == sync_bug_database(bs, cl)

\* self.changetracker.wipe_bugs(); self.sync_bug_database()
reset_bug_database(bs, cl) == sync_bug_database(wipe_bugs(bs), cl)

changesets_with_bug(bs, bug) == {pair[1] : pair \in {x \in bs : x[2] = bug}}

RECURSIVE PrintAll(_, _)
PrintAll(revs, cl) ==
    IF revs = <<>> THEN <<>>
    ELSE print_changeset_pushes(FALSE, cl[Head(revs) + 1], FALSE).out \o PrintAll(Tail(revs), cl)

\* hg buginfo [--sync] [--reset] [BUG]; ui has no method named warning.
buginfo(disabled, mode, bug) ==
    LET obs == [NoObs EXCEPT !.op = "buginfo", !.disabled = disabled, !.rl = rlen,
                             !.arg = mode, !.pre = Snapshot]
        revs == SortedSeq({RevOf(changelog, n) : n \in changesets_with_bug(bugs, bug)})
    IN /\ IF disabled
          THEN /\ bugs' = bugs
               /\ last' = [obs EXCEPT !.raised = "AttributeError", !.returned = FALSE,
                                      !.exit = 255]
          ELSE IF mode = "sync"
          THEN /\ bugs' = sync_bug_database(bugs, changelog)
               /\ last' = obs
          ELSE IF mode = "reset"
          THEN /\ bugs' = reset_bug_database(bugs, changelog)
               /\ last' = obs
          ELSE /\ bugs' = bugs
               /\ last' = [obs EXCEPT !.out = PrintAll(revs, changelog)]
       /\ UNCHANGED <<changelog, pushes, reffile, rlen, runtime>>

\* Changesets arrive by pulls from a repository that is no known tree.
NoPushlog == [capable |-> FALSE, ssh |-> FALSE, stepsdone |-> FALSE]

PlainPull ==
    \E head \in Nodes, disabled \in BOOLEAN :
        wrappedpull(OtherUrl, head, NoPushlog, disabled, "ok", StaticBranchMap(rlen, OtherUrl))

PushlogSync ==
    \E disabled \in BOOLEAN, reset \in BOOLEAN, bad \in {{}} \cup {{t} : t \in REPOS} :
        syncpushinfo(disabled, reset, bad)

ChangesetPushes ==
    \E disabled \in BOOLEAN, n \in Nodes, all \in BOOLEAN : changesetpushes(disabled, n, all)

BugInfo ==
    \E disabled \in BOOLEAN, mode \in {"sync", "reset", "query"}, bug \in {7, 8} :
        buginfo(disabled, mode, bug)

NextCmd == PlainPull \/ PushlogSync \/ ChangesetPushes \/ BugInfo

SpecCmd == Init /\ [][NextCmd]_vars

(***************************************************************************)
(* The bug relation and the two resets, in a repository that pulls, whose  *)
(* newest changeset may be stripped, and whose remotes have all their      *)
(* pushes.                                                                 *)
(***************************************************************************)
\* hg strip tip: the changeset leaves the changelog, the index is not told.
Strip ==
    /\ changelog # <<>>
    /\ changelog' = SubSeq(changelog, 1, Len(changelog) - 1)
    /\ last' = [NoObs EXCEPT !.op = "strip", !.rl = rlen, !.pre = Snapshot]
    /\ UNCHANGED <<pushes, reffile, bugs, rlen, runtime>>

BugsPull ==
    \E url \in {"central", OtherUrl}, head \in Nodes, disabled \in BOOLEAN :
        wrappedpull(url, head, Https, disabled, "ok", StaticBranchMap(rlen, url))

PushlogReset == \E disabled \in BOOLEAN : syncpushinfo(disabled, TRUE, {})

BugMaintain ==
    \E disabled \in BOOLEAN, mode \in {"sync", "reset"} : buginfo(disabled, mode, 7)

NextBugs == BugsPull \/ PushlogReset \/ BugMaintain \/ Strip


(***************************************************************************)
(* Reconciliation of remote refs: pulls of two trees, one's name a prefix  *)
(* of the other's, whose remotes report any branch map.                    *)
(***************************************************************************)
\* The heads a remote may list for a branch; the branch may also be missing.
HeadLists(b) ==
    IF b = Default THEN {<<>>, <<1>>, <<2, 3>>, <<3, 2>>}
    ELSE IF b = Feature THEN {<<2>>}
    ELSE {<<1>>}

BranchMaps ==
    UNION {{m \in [bs -> UNION {HeadLists(b) : b \in bs}] : \A b \in bs : m[b] \in HeadLists(b)} :
           bs \in SUBSET {Default, Feature, RelBranch}}

RefPull ==
    \E url \in {"b2g18", "b2g18_v1_0_0"}, head \in Nodes, bmap \in BranchMaps :
        wrappedpull(url, head, NoPushlog, TRUE, "ok", bmap)

NextRefs == RefPull

SpecRefs == Init /\ [][NextRefs]_vars

(***************************************************************************)
(* Release branches: pulls of a release tree and of a tree that is none,   *)
(* in a repository whose refs file still holds a RELBRANCH ref of the      *)
(* latter, written before such refs were left out.                         *)
(***************************************************************************)
StaleRef == RefName("b2g18", RelBranch)

InitRel ==
    /\ changelog = <<1>>
    /\ pushes = NoPushes
    /\ reffile = [r \in {StaleRef} |-> 1]
    /\ bugs = {}
    /\ rlen = [t \in REPOS |-> Len(FullLog(t))]
    /\ last = NoObs
    /\ wlock = NoProc
    /\ proc = [p \in Procs |-> NoRun]
    /\ session = NoSession

RelHeadLists(b) == IF b = Default THEN {<<1>>} ELSE {<<1>>, <<2, 3>>}

RelMaps ==
    UNION {{m \in [bs -> UNION {RelHeadLists(b) : b \in bs}] : \A b \in bs : m[b] \in RelHeadLists(b)} :
           bs \in SUBSET {Default, RelBranch}}

RelPull ==
    \E url \in {"b2g18", "beta"}, head \in Nodes, bmap \in RelMaps :
        wrappedpull(url, head, NoPushlog, TRUE, "ok", bmap)

NextRel == RelPull

SpecRel == InitRel /\ [][NextRel]_vars

(***************************************************************************)
(* Two hg pull processes on one repository, step by step: wrappedpull's    *)
(* orig(), repo.wlock(), the reconciliation and lock.release().  The peers *)
(* lack the pushlog capability and the index is disabled.                  *)
(***************************************************************************)
\* old_rev = len(repo); res = orig(repo, remote, ...)
PullChangesets(p, url, head) ==
    LET cl == changelog \o Incoming(changelog, rlen, url, head)
        out == exchangepullpushlog(cl, pushes, rlen, url, NoPushlog, TRUE, "ok")
    IN /\ proc[p].pc = "idle"
       /\ head \in RemoteNodes(rlen, url)
       /\ changelog' = cl
       /\ pushes' = out.pushes
       /\ proc' = [proc EXCEPT ![p] = [NoRun EXCEPT !.pc = "pulled", !.url = url]]
       /\ UNCHANGED <<reffile, bugs, rlen, last, wlock, session>>

\* lock = repo.wlock()
AcquireWlock(p) ==
    /\ proc[p].pc = "pulled"
    /\ wlock = NoProc
    /\ wlock' = p
    /\ proc' = [proc EXCEPT ![p].pc = "locked"]
    /\ UNCHANGED <<changelog, pushes, reffile, bugs, rlen, last, session>>

\* if tree: repo._update_remote_refs(remote, tree), with the remote's branch map.
Reconcile(p) ==
    LET tree == resolve_uri_to_tree(proc[p].url)
        bmap == StaticBranchMap(rlen, proc[p].url)
    IN /\ proc[p].pc = "locked"
       /\ wlock = p
       /\ reffile' = IF tree # NoTree
                     THEN update_remote_refs(reffile, changelog, tree, bmap)
                     ELSE reffile
       /\ proc' = [proc EXCEPT ![p].pc = "reconciled", ![p].bmap = bmap]
       /\ UNCHANGED <<changelog, pushes, bugs, rlen, last, wlock, session>>

\* lock.release()
ReleaseWlock(p) ==
    /\ proc[p].pc = "reconciled"
    /\ wlock = p
    /\ wlock' = NoProc
    /\ proc' = [proc EXCEPT ![p].pc = "done"]
    /\ UNCHANGED <<changelog, pushes, reffile, bugs, rlen, last, session>>

ProcPull == \E p \in Procs, url \in {"b2g18", "b2g18_v1_0_0", "central"}, head \in Nodes :
                PullChangesets(p, url, head)

ProcLock == \E p \in Procs : AcquireWlock(p)

ProcReconcile == \E p \in Procs : Reconcile(p)

ProcRelease == \E p \in Procs : ReleaseWlock(p)

NextConc == ProcPull \/ ProcLock \/ ProcReconcile \/ ProcRelease

SpecConc == Init /\ [][NextConc]_vars

(***************************************************************************)
(* Release versions: _release_versions, _earliest_version_ancestors and    *)
(* _compute_first_version.  A version is a string, kept as the sequence of *)
(* its characters.                                                         *)
(***************************************************************************)
Gecko(v) == <<"GECKO">> \o v \o <<"_", "2013", "_", "RELBRANCH">>

Beta2 == Gecko(<<"2", "0", "0", "b", "2">>)

Beta10 == Gecko(<<"2", "0", "0", "b", "1", "0">>)

Release200 == Gecko(<<"2", "0", "0">>)

\* str.split(sep)
RECURSIVE SplitOn(_, _)
SplitOn(s, sep) ==
    IF sep \notin Range(s) THEN <<s>>
    ELSE LET i == SetMin({j \in DOMAIN s : s[j] = sep})
         IN <<SubSeq(s, 1, i - 1)>> \o SplitOn(SubSeq(s, i + 1, Len(s)), sep)

\* The body of the loop of _release_versions for one key (prefix removed).
ParseVersion(key, node) ==
    LET raw == Tail(SplitOn(key, "_")[1])
        hasb == "b" \in Range(raw)
        ver == IF hasb THEN SplitOn(raw, "b")[1] ELSE raw
        after == IF hasb THEN SplitOn(raw, "b")[2] ELSE <<>>
        major == IF Len(ver) > 2 THEN SubSeq(ver, 1, 2) ELSE <<ver[1]>>
        minor == IF Len(ver) > 2 THEN SubSeq(ver, 3, Len(ver)) ELSE <<ver[2]>>
    IN [version |-> major \o <<".">> \o minor \o (IF hasb THEN <<"b">> \o after ELSE <<>>),
        key |-> key, node |-> node, major |-> major, minor |-> minor,
        marker |-> hasb, after |-> after]

release_versions(refs, prefix) ==
    LET keys == {r \in DOMAIN refs :
                    /\ StartsWith(r, prefix)
                    /\ StartsWith(SubSeq(r, Len(prefix) + 1, Len(r)), <<"GECKO">>)
                    /\ EndsWith(r, <<"RELBRANCH">>)}
        entries == {ParseVersion(SubSeq(r, Len(prefix) + 1, Len(r)), refs[r]) : r \in keys}
    IN [v \in {e.version : e \in entries} |-> CHOOSE e \in entries : e.version = v]

\* ord() of the characters of a version string.
CharCode(c) ==
    CASE c = "." -> 46
      [] c = "b" -> 98
      [] c = "0" -> 48 [] c = "1" -> 49 [] c = "2" -> 50 [] c = "3" -> 51 [] c = "4" -> 52
      [] c = "5" -> 53 [] c = "6" -> 54 [] c = "7" -> 55 [] c = "8" -> 56 [] c = "9" -> 57

\* a < b for two str
RECURSIVE StrLess(_, _)
StrLess(a, b) ==
    IF a = <<>> THEN b # <<>>
    ELSE IF b = <<>> THEN FALSE
    ELSE IF a[1] = b[1] THEN StrLess(Tail(a), Tail(b))
    ELSE CharCode(a[1]) < CharCode(b[1])

\* sorted(versions.items()): the keys are distinct, so the order is the keys'.
RECURSIVE SortedItems(_)
SortedItems(S) ==
    IF S = {} THEN <<>>
    ELSE LET m == CHOOSE x \in S : \A y \in S \ {x} : StrLess(x, y)
         IN <<m>> \o SortedItems(S \ {m})

AncestorRevs(cl, revs) == {RevOf(cl, a) : a \in UNION {Ancestors(cl[r + 1]) : r \in revs}}

findmissingrevs_NoCommon(cl, common, heads) == AncestorRevs(cl, heads)

\* changelog.findmissingrevs(common, heads): ancestors of heads that are no
\* ancestors of common.
findmissingrevs(cl, common, heads) == AncestorRevs(cl, heads) \ AncestorRevs(cl, common)

RECURSIVE EarliestLoop(_, _, _, _, _)
EarliestLoop(order, cl, versions, seen, d) ==
    IF order = <<>> THEN d
    ELSE LET version_rev == RevOf(cl, versions[Head(order)].node)
             ancestors == findmissingrevs(cl, seen, {version_rev})
         IN EarliestLoop(Tail(order), cl, versions, seen \cup ancestors,
                         d @@ (Head(order) :> ancestors))

earliest_version_ancestors(cl, versions) ==
    EarliestLoop(SortedItems(DOMAIN versions), cl, versions, {}, [v \in {} |-> {}])

CacheMiss_Always(cache, cache_key) == TRUE

\* if cache_key not in cache
CacheMiss(cache, cache_key) == cache_key \notin DOMAIN cache

NoVersion == [some |-> FALSE, version |-> <<>>]

\* for version, ancestors in cache[cache_key].items(): if rev in ancestors
FirstVersionIn(part, rev) ==
    IF \E v \in DOMAIN part : rev \in part[v]
    THEN [some |-> TRUE, version |-> CHOOSE v \in DOMAIN part : rev \in part[v]]
    ELSE NoVersion

\* The templater evaluates {firstrelease} or {firstbeta} for a changeset.
compute_first_version(n, what) ==
    LET rev == RevOf(changelog, n)
        miss == CacheMiss(session.cache, what)
        refs == IF miss /\ ~session.refs.loaded
                THEN [loaded |-> TRUE, map |-> LoadRefs(reffile, changelog)]
                ELSE session.refs
        versions == release_versions(refs.map, <<what, "/">>)
        cache == IF miss
                 THEN [k \in DOMAIN session.cache \cup {what} |->
                          IF k = what THEN earliest_version_ancestors(changelog, versions)
                          ELSE session.cache[k]]
                 ELSE session.cache
    IN /\ n \in Known(changelog)
       /\ session' = [cache |-> cache,
                      computed |-> IF miss
                                   THEN [session.computed EXCEPT ![what] = @ + 1]
                                   ELSE session.computed,
                      refs |-> refs]
       /\ last' = [NoObs EXCEPT !.op = "template", !.arg = what, !.ctx = n,
                                !.value = FirstVersionIn(cache[what], rev),
                                !.fresh = miss,
                                !.versions = IF miss THEN versions ELSE NoObs.versions]
       /\ UNCHANGED <<changelog, pushes, reffile, bugs, rlen, wlock, proc>>

\* Another hg process starts to render templates: its cache is empty.
StartSession ==
    /\ session' = NoSession
    /\ last' = [NoObs EXCEPT !.op = "session"]
    /\ UNCHANGED <<changelog, pushes, reffile, bugs, rlen, wlock, proc>>

\* Every changeset is there in one of its topological orders; the refs of
\* the release tree are there or not.
RECURSIVE TopoOrders(_)
TopoOrders(S) ==
    IF S = {} THEN {<<>>}
    ELSE UNION {{o \o <<n>> : o \in TopoOrders(S \ {n})} :
                n \in {x \in S : \A y \in S : x \notin Ancestors(y) \/ x = y}}

InitVer ==
    /\ changelog \in TopoOrders(Nodes)
    /\ pushes = NoPushes
    /\ reffile \in {NoRefs, [r \in {RefName("release", Release200)} |-> 2]}
    /\ bugs = {}
    /\ rlen = [t \in REPOS |-> Len(FullLog(t))]
    /\ last = NoObs
    /\ wlock = NoProc
    /\ proc = [p \in Procs |-> NoRun]
    /\ session = NoSession

VerHeadLists(b) == IF b = Beta2 THEN {<<1>>, <<2>>} ELSE {<<3>>}

VerMaps ==
    UNION {{m \in [bs -> UNION {VerHeadLists(b) : b \in bs}] : \A b \in bs : m[b] \in VerHeadLists(b)} :
           bs \in SUBSET {Beta2, Beta10}}

VerPull == \E bmap \in VerMaps : wrappedpull("beta", 1, NoPushlog, TRUE, "ok", bmap)

VerLookup == \E n \in Nodes, what \in ReleaseKinds : compute_first_version(n, what)

NextVer == VerPull \/ VerLookup \/ StartSession

SpecVer == InitVer /\ [][NextVer]_vars

(***************************************************************************)
(* Revsets and template keywords over the pushlog: pushhead, firstpushdate,*)
(* firstpushtree, {firstpushuser}, {firstpushtree}, {firstpushdate}.       *)
(***************************************************************************)
\* ChangeTracker.tree_push_head_changesets: (push_id, head_changeset) of the
\* tree's pushes, ascending by push id.
tree_push_head_changesets(st, tree) ==
    LET rows == RowsByPushId({r \in st.rows : r.tree = tree})
    IN [i \in DOMAIN rows |-> [pushid |-> rows[i].pushid, head |-> LastNode(rows[i].nodes)]]

\* resolve_trees_to_uris([tree])[0]: the tree and its URI, none for an unknown tree.
TreeArgs == {"beta", "central", "nosuchtree"}

HasUri(tree) == tree \in REPOS

\* The generator pushheads(): repo[head_changeset].rev(), a RepoLookupError skipped.
RECURSIVE pushheads(_, _)
pushheads(heads, cl) ==
    IF heads = <<>> THEN <<>>
    ELSE (IF Head(heads).head \in Known(cl) THEN <<RevOf(cl, Head(heads).head)>> ELSE <<>>)
         \o pushheads(Tail(heads), cl)

AllRevs(cl) == {i - 1 : i \in DOMAIN cl}

\* The subsets a revset is evaluated on.
Subsets(cl) == {AllRevs(cl), AllRevs(cl) \ {0}, AllRevs(cl) \cap {0}}

\* reversed()
Reverse(s) == [i \in DOMAIN s |-> s[Len(s) + 1 - i]]

\* The smartsets a predicate is handed: a subset in ascending or descending order.
Inputs(cl) == UNION {{SortedSeq(S), Reverse(SortedSeq(S))} : S \in Subsets(cl)}

filter_Ascending(input, keep) == SortedSeq(Range(input) \cap keep)

\* subset.filter(fltr): the members that pass, in the order of the subset.
filter(input, keep) == SelectSeq(input, LAMBDA r : r \in keep)

\* What a filtering predicate was given and what it returned.
Filtered(obs, input, keep) ==
    [obs EXCEPT !.input = input, !.subset = Range(input), !.evaluated = Range(input),
                !.out = filter(input, keep), !.selected = Range(filter(input, keep))]

\* pushhead(TREE): the revisions the generator yields, handed to
\* generatorset(..., iterasc=True) and intersected with the subset.
revset_pushhead_tree(tree, subset) ==
    LET gen == pushheads(tree_push_head_changesets(pushes, tree), changelog)
        obs == [NoObs EXCEPT !.op = "pushhead", !.tree = tree, !.subset = subset, !.rl = rlen]
    IN /\ subset \in Subsets(changelog)
       /\ IF ~HasUri(tree)
          THEN last' = [obs EXCEPT !.raised = "Abort", !.returned = FALSE]
          ELSE last' = [obs EXCEPT !.out = SelectSeq(gen, LAMBDA r : r \in subset),
                                   !.selected = Range(gen) \cap subset]
       /\ UNCHANGED <<changelog, pushes, reffile, bugs, rlen, runtime>>

is_pushhead_AnyMember(st, cl, r) ==
    \E i \in DOMAIN pushes_for_changeset(st, cl[r + 1]) : TRUE

\* for push in pushes_for_changeset(node): if str(push[4]) == node: return True
is_pushhead(st, cl, r) ==
    \E i \in DOMAIN pushes_for_changeset(st, cl[r + 1]) :
        pushes_for_changeset(st, cl[r + 1])[i].head = cl[r + 1]

\* pushhead(): subset.filter(is_pushhead)
revset_pushhead_any(input) ==
    /\ input \in Inputs(changelog)
    /\ last' = Filtered([NoObs EXCEPT !.op = "pushhead()", !.rl = rlen], input,
                        {r \in Range(input) : is_pushhead(pushes, changelog, r)})
    /\ UNCHANGED <<changelog, pushes, reffile, bugs, rlen, runtime>>

\* matchdate(ds): the date specs are ranges of timestamps.
DateSpecs == {[lo |-> 0, hi |-> 15], [lo |-> 16, hi |-> 100]}

dm(ds, when) == ds.lo <= when /\ when <= ds.hi

firstpushdate_NoPushPasses(st, cl, ds, r) ==
    LET ps == pushes_for_changeset(st, cl[r + 1])
    IN IF ps = <<>> THEN TRUE ELSE dm(ds, ps[1].when)

firstpushdate_AnyPush(st, cl, ds, r) ==
    \E i \in DOMAIN pushes_for_changeset(st, cl[r + 1]) :
        dm(ds, pushes_for_changeset(st, cl[r + 1])[i].when)

\* fltr of revset_firstpushdate
firstpushdate_fltr(st, cl, ds, r) ==
    LET ps == pushes_for_changeset(st, cl[r + 1])
    IN IF ps = <<>> THEN FALSE ELSE dm(ds, ps[1].when)

revset_firstpushdate(ds, input) ==
    /\ input \in Inputs(changelog)
    /\ last' = Filtered([NoObs EXCEPT !.op = "firstpushdate", !.date = ds, !.rl = rlen], input,
                        {r \in Range(input) : firstpushdate_fltr(pushes, changelog, ds, r)})
    /\ UNCHANGED <<changelog, pushes, reffile, bugs, rlen, runtime>>

pushdate_HeadOnly(st, cl, ds, r) ==
    pushes_for_changeset(st, cl[r + 1]) # <<>>
    /\ dm(ds, pushes_for_changeset(st, cl[r + 1])[1].when)

\* fltr of revset_pushdate: for push in pushes_for_changeset(node): if dm(push[2])
pushdate_fltr(st, cl, ds, r) ==
    \E i \in DOMAIN pushes_for_changeset(st, cl[r + 1]) :
        dm(ds, pushes_for_changeset(st, cl[r + 1])[i].when)

revset_pushdate(ds, input) ==
    /\ input \in Inputs(changelog)
    /\ last' = Filtered([NoObs EXCEPT !.op = "pushdate", !.date = ds, !.rl = rlen], input,
                        {r \in Range(input) : pushdate_fltr(pushes, changelog, ds, r)})
    /\ UNCHANGED <<changelog, pushes, reffile, bugs, rlen, runtime>>

\* fltr of revset_firstpushtree
firstpushtree_fltr(st, cl, tree, r) ==
    LET ps == pushes_for_changeset(st, cl[r + 1])
    IN IF ps = <<>> THEN FALSE ELSE ps[1].tree = tree

revset_firstpushtree(tree, input) ==
    LET obs == [NoObs EXCEPT !.op = "firstpushtree", !.tree = tree, !.input = input,
                             !.subset = Range(input), !.rl = rlen]
    IN /\ input \in Inputs(changelog)
       /\ IF ~HasUri(tree)
          THEN last' = [obs EXCEPT !.raised = "Abort", !.returned = FALSE]
          ELSE last' = Filtered(obs, input,
                         {r \in Range(input) : firstpushtree_fltr(pushes, changelog, tree, r)})
       /\ UNCHANGED <<changelog, pushes, reffile, bugs, rlen, runtime>>

\* repo[name]: Mercurial resolves a name among the repository's bookmarks,
\* tags and branches; the repository has none but tip and the branch default.
RepoNames(cl) ==
    IF cl = <<>> THEN [x \in {} |-> 0] ELSE [x \in {<<"tip">>, Default} |-> cl[Len(cl)]]

\* tree(X): repo['%s/default' % tree].rev(), then subset & baseset(ancestors).
revset_tree(tree, input) ==
    LET obs == [NoObs EXCEPT !.op = "tree", !.tree = tree, !.input = input,
                             !.subset = Range(input), !.rl = rlen]
        ref == RefName(tree, Default)
        names == RepoNames(changelog)
    IN /\ input \in Inputs(changelog)
       /\ IF ~HasUri(tree)
          THEN last' = [obs EXCEPT !.raised = "Abort", !.returned = FALSE]
          ELSE IF ref \notin DOMAIN names
          THEN last' = [obs EXCEPT !.raised = "RepoLookupError", !.returned = FALSE]
          ELSE last' = Filtered(obs, input,
                         {RevOf(changelog, a) : a \in Ancestors(names[ref]) \cap Known(changelog)})
       /\ UNCHANGED <<changelog, pushes, reffile, bugs, rlen, runtime>>

\* {firstpushuser}, {firstpushtree}, {firstpushtreeherder}, {firstpushdate} of a changeset.
template_firstpush(n) ==
    LET ps == pushes_for_changeset(pushes, n)
    IN /\ n \in Known(changelog)
       /\ last' = [NoObs EXCEPT !.op = "firstpush", !.ctx = n, !.rl = rlen,
                                !.first = IF ps = <<>> THEN NoObs.first
                                          ELSE [some |-> TRUE, tree |-> ps[1].tree,
                                                who |-> ps[1].who, when |-> ps[1].when,
                                                head |-> ps[1].head]]
       /\ UNCHANGED <<changelog, pushes, reffile, bugs, rlen, runtime>>

(***************************************************************************)
(* Revsets over the changesets' descriptions and users: bug, dontbuild,    *)
(* me, nobug, reviewer, reviewed.  Strings are sequences of symbols.       *)
(***************************************************************************)
\* The parse tree of a predicate's argument: none, a symbol, a string or a call.
NoArg == [kind |-> "none", val |-> <<>>]

Args ==
    {NoArg,
     [kind |-> "symbol", val |-> <<"7">>], [kind |-> "symbol", val |-> <<"0", "7">>],
     [kind |-> "string", val |-> <<"gps">>], [kind |-> "symbol", val |-> <<"7", "x">>],
     [kind |-> "func", val |-> <<"tip">>]}

\* if x: a parse tree is a non-empty tuple, no argument is None.
Truthy_NoArgOnly(x) == FALSE

Truthy(x) == x.kind # "none"

\* revset.getstring(x, err)
getstring(x, err) ==
    IF x.kind \in {"string", "symbol"} THEN [ok |-> TRUE, val |-> x.val, err |-> NoMsg]
    ELSE [ok |-> FALSE, val |-> <<>>, err |-> err]

Digits == {"0", "1", "2", "3", "4", "5", "6", "7", "8", "9"}

\* int(bugstring) raises for anything but a numeral.
IsInt(str) == str # <<>> /\ \A i \in DOMAIN str : str[i] \in Digits

RECURSIVE int(_)
int(str) ==
    IF str = <<>> THEN 0
    ELSE int(SubSeq(str, 1, Len(str) - 1)) * 10 + (CharCode(str[Len(str)]) - 48)

\* a in b for two str
Contains(b, a) == \E i \in 1..(Len(b) - Len(a) + 1) : SubSeq(b, i, i + Len(a) - 1) = a

\* ctx.description()
description(n) ==
    CASE n = 1 -> <<"initial", " ", "import">>
      [] n = 2 -> <<"Bug", " ", "7", " ", "r=", "gps">>
      [] n = 3 -> <<"Bug", " ", "7", ",", " ", "8", " ", "DONTBUILD">>
      [] OTHER -> <<"Bug", " ", "7">>

\* ctx.user()
user(n) == IF n = 1 THEN <<"Alice", " ", "<alice@example.com>">> ELSE <<"Bob", " ", "<bob@example.com>">>

parse_reviewers(n) == IF n = 2 THEN {<<"gps">>} ELSE {}

\* encoding.lower
lower(str) == [i \in DOMAIN str |-> CASE str[i] = "Alice" -> "alice" [] str[i] = "Bob" -> "bob"
                                        [] str[i] = "Central" -> "central"
                                        [] str[i] = "TRY" -> "try"
                                        [] OTHER -> str[i]]

\* [ui] username and [mozext] ircnick; headless is off.
Configs ==
    {[username |-> <<>>, ircnick |-> <<>>], [username |-> <<"Alice">>, ircnick |-> <<>>],
     [username |-> <<"Alice">>, ircnick |-> <<"gps">>]}

ParseFailure(obs, input, err) ==
    [obs EXCEPT !.input = input, !.subset = Range(input), !.raised = "ParseError",
                !.msg = err, !.returned = FALSE]

AbortFailure(obs, input, err) ==
    [obs EXCEPT !.input = input, !.subset = Range(input), !.raised = "Abort",
                !.msg = err, !.returned = FALSE]

revset_bug(x, input) ==
    LET err == <<"bug() requires an integer argument.">>
        obs == [NoObs EXCEPT !.op = "bug", !.x = x, !.rl = rlen]
        bugstring == getstring(x, err)
    IN /\ input \in Inputs(changelog)
       /\ last' = IF ~bugstring.ok THEN ParseFailure(obs, input, err)
                  ELSE IF ~IsInt(bugstring.val) THEN ParseFailure(obs, input, err)
                  ELSE Filtered(obs, input,
                         {r \in Range(input) :
                             /\ Contains(description(changelog[r + 1]), bugstring.val)
                             /\ int(bugstring.val) \in parse_bugs(changelog[r + 1])})
       /\ UNCHANGED <<changelog, pushes, reffile, bugs, rlen, runtime>>

revset_dontbuild(x, input) ==
    LET obs == [NoObs EXCEPT !.op = "dontbuild", !.x = x, !.rl = rlen]
    IN /\ input \in Inputs(changelog)
       /\ last' = IF Truthy(x)
                  THEN ParseFailure(obs, input, <<"dontbuild() does not take any arguments">>)
                  ELSE Filtered(obs, input,
                         {r \in Range(input) :
                             Contains(description(changelog[r + 1]), <<"DONTBUILD">>)})
       /\ UNCHANGED <<changelog, pushes, reffile, bugs, rlen, runtime>>

revset_me(x, input, cfg) ==
    LET obs == [NoObs EXCEPT !.op = "me", !.x = x, !.rl = rlen]
    IN /\ input \in Inputs(changelog)
       /\ last' = IF Truthy(x)
                  THEN ParseFailure(obs, input, <<"me() does not take any arguments">>)
                  ELSE IF cfg.username = <<>>
                  THEN AbortFailure(obs, input, <<"\"[ui] username\" must be set to use me()">>)
                  ELSE IF cfg.ircnick = <<>>
                  THEN AbortFailure(obs, input, <<"Set \"[mozext] ircnick\" in your hgrc">>)
                  ELSE Filtered(obs, input,
                         {r \in Range(input) :
                             \/ Contains(lower(user(changelog[r + 1])), lower(cfg.username))
                             \/ cfg.ircnick \in parse_reviewers(changelog[r + 1])})
       /\ UNCHANGED <<changelog, pushes, reffile, bugs, rlen, runtime>>

revset_nobug(x, input) ==
    LET obs == [NoObs EXCEPT !.op = "nobug", !.x = x, !.rl = rlen]
    IN /\ input \in Inputs(changelog)
       /\ last' = IF Truthy(x)
                  THEN ParseFailure(obs, input, <<"nobug() does not take any arguments">>)
                  ELSE Filtered(obs, input,
                         {r \in Range(input) : parse_bugs(changelog[r + 1]) = {}})
       /\ UNCHANGED <<changelog, pushes, reffile, bugs, rlen, runtime>>

revset_reviewer(x, input) ==
    LET err == <<"reviewer() requires a string argument.">>
        obs == [NoObs EXCEPT !.op = "reviewer", !.x = x, !.rl = rlen]
        n == getstring(x, err)
    IN /\ input \in Inputs(changelog)
       /\ last' = IF ~n.ok THEN ParseFailure(obs, input, err)
                  ELSE Filtered(obs, input,
                         {r \in Range(input) : n.val \in parse_reviewers(changelog[r + 1])})
       /\ UNCHANGED <<changelog, pushes, reffile, bugs, rlen, runtime>>

revset_reviewed(x, input) ==
    LET obs == [NoObs EXCEPT !.op = "reviewed", !.x = x, !.rl = rlen]
    IN /\ input \in Inputs(changelog)
       /\ last' = IF Truthy(x)
                  THEN ParseFailure(obs, input, <<"reviewed() does not take an argument">>)
                  ELSE Filtered(obs, input,
                         {r \in Range(input) : parse_reviewers(changelog[r + 1]) # {}})
       /\ UNCHANGED <<changelog, pushes, reffile, bugs, rlen, runtime>>

BugRevset == \E x \in Args, input \in Inputs(changelog) : revset_bug(x, input)

DontBuild == \E x \in Args, input \in Inputs(changelog) : revset_dontbuild(x, input)

Me == \E x \in Args, input \in Inputs(changelog), cfg \in Configs : revset_me(x, input, cfg)

NoBug == \E x \in Args, input \in Inputs(changelog) : revset_nobug(x, input)

Reviewer == \E x \in Args, input \in Inputs(changelog) : revset_reviewer(x, input)

Reviewed == \E x \in Args, input \in Inputs(changelog) : revset_reviewed(x, input)

QueryPull ==
    \E url \in {"beta", "central"}, head \in Nodes :
        wrappedpull(url, head, Https, FALSE, "ok", StaticBranchMap(rlen, url))

PushHeadTree == \E tree \in TreeArgs : revset_pushhead_tree(tree, AllRevs(changelog))

PushHeadAny == \E input \in Inputs(changelog) : revset_pushhead_any(input)

FirstPushDate == \E ds \in DateSpecs, input \in Inputs(changelog) : revset_firstpushdate(ds, input)

PushDate == \E ds \in DateSpecs, input \in Inputs(changelog) : revset_pushdate(ds, input)

FirstPushTree == \E tree \in TreeArgs, input \in Inputs(changelog) : revset_firstpushtree(tree, input)

FirstPushKeywords == \E n \in Nodes : template_firstpush(n)

TreeRevset == \E tree \in TreeArgs, input \in Inputs(changelog) : revset_tree(tree, input)

NextQuery ==
    QueryPull \/ PushHeadTree \/ PushHeadAny \/ FirstPushDate \/ FirstPushTree
    \/ FirstPushKeywords \/ PushDate \/ TreeRevset

\* A new, empty repository; every remote has had all its pushes.
InitQuery ==
    /\ changelog = <<>>
    /\ pushes = NoPushes
    /\ reffile = NoRefs
    /\ bugs = {}
    /\ rlen = [t \in REPOS |-> Len(FullLog(t))]
    /\ last = NoObs
    /\ wlock = NoProc
    /\ proc = [p \in Procs |-> NoRun]
    /\ session = NoSession

SpecQuery == InitQuery /\ [][NextQuery]_vars

\* The bug relation and the resets, from the same new repository.
SpecBugs == InitQuery /\ [][NextBugs]_vars

(***************************************************************************)
(* The prepushkey hook reject_repo_names_hook                              *)
(***************************************************************************)
KeyTokens == {"central", "Central", "try", "TRY", "gps", "/", "default", "test", "b2g18",
              "_v1_0_0", "ized"}

\* The names of the keys a client pushes.
Keys ==
    {<<a>> : a \in KeyTokens} \cup {<<a, b>> : a \in KeyTokens, b \in KeyTokens}
    \cup {<<"central", "/", "default">>, <<"gps", "/", "test">>, <<"Central", "/", "default">>,
          <<"b2g18", "_v1_0_0", "/">>}

Namespaces == {"bookmarks", "phases"}

reject_repo_names_hook_WithSlash(key) ==
    \E t \in REPOS : StartsWith(lower(key), TreeName(t) \o <<"/">>)

\* key.lower().startswith(tuple(REPOS.keys()))
reject_repo_names_hook(key) == \E t \in REPOS : StartsWith(lower(key), TreeName(t))

RejectWarning ==
    "You are not allowed to push tags or bookmarks that share names with official Mozilla repositories: "

\* A push of one key to a repository whose reposetup saw the setting config:
\* the hook is installed when it is set, and a hook that returns True fails the push.
pushkey(config, namespace, key) ==
    LET rejected == config /\ reject_repo_names_hook(key)
    IN /\ last' = [NoObs EXCEPT !.op = "pushkey", !.namespace = namespace, !.key = key,
                                !.hooked = config, !.rl = rlen,
                                !.warnings = IF rejected THEN <<RejectWarning>> ELSE <<>>,
                                !.raised = IF rejected THEN "Abort" ELSE "none",
                                !.returned = ~rejected]
       /\ UNCHANGED <<changelog, pushes, reffile, bugs, rlen, runtime>>

PushKey ==
    \E config \in BOOLEAN, namespace \in Namespaces, key \in Keys : pushkey(config, namespace, key)

NextHook == PushKey

SpecHook == Init /\ [][NextHook]_vars

\* Every filtering predicate, in a repository that pulls from beta.
RevsetPull ==
    \E head \in Nodes : wrappedpull("beta", head, Https, FALSE, "ok", StaticBranchMap(rlen, "beta"))

NextRevset ==
    RevsetPull \/ BugRevset \/ DontBuild \/ Me \/ NoBug \/ Reviewer \/ Reviewed
    \/ PushHeadAny \/ FirstPushDate \/ PushDate \/ FirstPushTree \/ TreeRevset

SpecRevset == InitQuery /\ [][NextRevset]_vars

(***************************************************************************)
(* Properties of the pushlog sync                                          *)
(***************************************************************************)
RowsOf(st, t) == {r \in st.rows : r.tree = t}

LogRows(t, k) == {Row(t, FullLog(t)[i]) : i \in 1..k}

Requested == last.op = "pull" /\ last.requests # <<>>

\* The lines the remote sent in answer to the last request.
SentLines == RemoteResponse(last.rl, last.tree, last.requests[1].firstpush, last.kind)

\* C1: every sync asks for firstpush = largest stored push id of the tree + 1
\* (0 when the tree has none); hence the rows stored for a tree are always the
\* remote's own records of a gap-free prefix of its log, a stored row never
\* changes or disappears, no insert ever clashes with a stored push, and a sync
\* that was not cut short leaves every push of the remote stored.
C1_Resumable ==
    /\ last.raised # "StorageError"
    /\ last.pre.pushes.rows \subseteq pushes.rows
    /\ \A t \in REPOS : \E k \in 0..rlen[t] : RowsOf(pushes, t) = LogRows(t, k)
    /\ Requested =>
        /\ Len(last.requests) = 1
        /\ last.requests[1].tree = last.tree
        /\ last.requests[1].firstpush =
             IF RowsOf(last.pre.pushes, last.tree) = {} THEN 0
             ELSE SetMax({r.pushid : r \in RowsOf(last.pre.pushes, last.tree)}) + 1
    /\ (Requested /\ last.kind = "ok" /\ last.raised = "none" /\ last.warnings = <<>>) =>
        RowsOf(pushes, last.tree) = LogRows(last.tree, last.rl[last.tree])

\* A later sync of a tree that already had pushes stored, adding new ones.
C1_Witness ==
    /\ Requested /\ last.raised = "none" /\ last.added > 0
    /\ RowsOf(last.pre.pushes, last.tree) # {}
    /\ last.requests[1].firstpush > 1

RecordLines == Tail(SentLines)

UnknownRecords ==
    {i \in DOMAIN RecordLines :
        \E j \in DOMAIN RecordLines[i].nodes : RecordLines[i].nodes[j] \notin Known(changelog)}

\* C2: when record k of a successful response is the first that lists a
\* changeset the changelog lacks, exactly records 1..k-1 are added to the
\* store (none, store unchanged, when k = 1), later records are not stored
\* even if all their changesets are known, and the pull returns its result.
C2_TruncatesAtFirstUnknown ==
    (Requested /\ last.kind = "ok") =>
        /\ last.raised = "none"
        /\ UnknownRecords # {} =>
            LET k == SetMin(UnknownRecords)
            IN /\ last.returned /\ last.res = last.orig
               /\ pushes.rows = last.pre.pushes.rows
                                \cup {Row(last.tree, RecordLines[i]) : i \in 1..(k - 1)}
               /\ last.added = k - 1
               /\ k = 1 => pushes = last.pre.pushes

\* A response cut at its second record whose third record is fully known.
C2_Witness ==
    /\ Requested /\ last.kind = "ok" /\ UnknownRecords # {}
    /\ SetMin(UnknownRecords) = 2
    /\ \E i \in DOMAIN RecordLines : i > 2 /\ i \notin UnknownRecords
    /\ last.added = 1

Carries(msg, text) ==
    text # <<>> /\ \E i \in 1..Len(msg) : i + Len(text) - 1 <= Len(msg)
                                         /\ SubSeq(msg, i, i + Len(text) - 1) = text

FailureStatus == Requested /\ SentLines # <<>> /\ Head(SentLines).text # <<"1">>

\* C3 as stated: whatever the first line is, if it is not "1" the error carries
\* the line that follows it and nothing is stored.
C3_Original ==
    (FailureStatus /\ Len(SentLines) >= 2) =>
        /\ last.raised # "none"
        /\ Carries(last.msg, SentLines[2].text)
        /\ pushes = last.pre.pushes

\* C3 amended: a first line other than "1" always ends the sync with an error
\* and nothing stored.  The error carries the following line only when the
\* first line begins with "0"; for any other non-empty first line it carries
\* that first line instead; a blank first line, or a "0" line with nothing
\* after it, ends in an exception that carries no message.
C3_Amended ==
    FailureStatus =>
        LET status == Head(SentLines).text
        IN /\ last.raised # "none" /\ ~last.returned
           /\ pushes = last.pre.pushes
           /\ (status # <<>> /\ status[1] = "0" /\ Len(SentLines) >= 2) =>
                /\ last.raised = "Abort"
                /\ Carries(last.msg, SentLines[2].text)
           /\ (status # <<>> /\ status[1] # "0") =>
                /\ last.raised = "Abort"
                /\ Carries(last.msg, status)
                /\ Len(SentLines) >= 2 => ~Carries(last.msg, SentLines[2].text)
           /\ (status = <<>> \/ (status[1] = "0" /\ Len(SentLines) = 1)) =>
                /\ last.raised \in {"IndexError", "StopIteration"}
                /\ last.msg = NoMsg

\* An unexpected status line, with a line after it that the error leaves out.
C3_Witness ==
    /\ FailureStatus /\ Head(SentLines).text = <<"1", "0">>
    /\ last.raised = "Abort" /\ Len(SentLines) >= 2

(***************************************************************************)
(* Properties of the post-pull trigger (SpecTrigger)                       *)
(***************************************************************************)
\* C4: a sync that fails (failure status, unexpected or malformed response)
\* does not fail the pull: the pull returns its result, with a warning.
C4_PullSurvivesSyncFailure ==
    (Requested /\ last.kind # "ok") =>
        /\ last.returned /\ last.raised = "none"
        /\ last.res = last.orig
        /\ last.warnings # <<>>

SkippedQuietly ==
    /\ last.requests = <<>>
    /\ pushes = last.pre.pushes
    /\ last.returned /\ last.res = last.orig

OnlySsh ==
    /\ last.tr.ssh /\ last.tr.capable /\ ~last.tr.stepsdone
    /\ last.tree \notin {NoTree, "try"} /\ ~last.disabled

\* C5 as stated: no request when the tree is unknown, the index is disabled or
\* the transport cannot fetch; exactly one request in every other pull.
C5_Original ==
    last.op = "pull" =>
        IF last.tree = NoTree \/ last.disabled \/ ~last.tr.capable \/ last.tr.ssh
        THEN SkippedQuietly
        ELSE Len(last.requests) = 1 /\ last.requests[1].tree = last.tree

\* C5 amended: the pulls without a request are also those of the tree try and
\* those whose pushlog step was already done; the ssh warning is emitted when
\* ssh is the only reason to skip.
C5_Amended ==
    last.op = "pull" =>
        IF \/ last.tree = NoTree \/ last.tree = "try" \/ last.disabled
           \/ ~last.tr.capable \/ last.tr.stepsdone \/ last.tr.ssh
        THEN /\ SkippedQuietly
             /\ last.warnings = IF OnlySsh THEN <<SshWarning>> ELSE <<>>
        ELSE Len(last.requests) = 1 /\ last.requests[1].tree = last.tree

\* A pull of try over https with the index enabled: no request is made.
C5_Witness ==
    /\ last.op = "pull" /\ last.tree = "try" /\ last.tr = Https /\ ~last.disabled
    /\ last.requests = <<>> /\ last.orig > 0

(***************************************************************************)
(* Properties of the commands (SpecCmd)                                    *)
(***************************************************************************)
BatchRan == last.op = "pushlogsync" /\ ~last.disabled

\* C6: with reset the batch command wipes the store and then syncs every known
\* tree in sorted order; without reset it syncs every tree once in that order
\* and removes nothing.
C6_ResetRepopulates ==
    BatchRan =>
        IF last.arg = "reset"
        THEN last.synced = SortedRepos
        ELSE last.raised = "none" =>
                /\ last.synced = SortedRepos
                /\ last.pre.pushes.rows \subseteq pushes.rows

\* C7: a tree whose sync fails does not keep the trees after it from being
\* synced: every tree is attempted.
C7_BatchContinuesAfterFailure ==
    (BatchRan /\ last.arg = "") => last.synced = SortedRepos

\* C8: with the index disabled each index-backed command warns, exits with
\* status 1 and no data, raises nothing and leaves the store alone.
C8_DisabledDegrades ==
    (last.op \in {"pushlogsync", "changesetpushes", "buginfo"} /\ last.disabled) =>
        /\ last.raised = "none"
        /\ last.warnings # <<>>
        /\ last.exit = 1
        /\ last.out = <<>>
        /\ pushes = last.pre.pushes

(***************************************************************************)
(* Properties of the reconciliation (SpecRefs)                             *)
(***************************************************************************)
Reconciled == last.op = "pull" /\ last.returned /\ last.tree # NoTree

TreePrefix(t) == TreeName(t) \o <<"/">>

BranchPart(t, r) == SubSeq(r, Len(TreePrefix(t)) + 1, Len(r))

SameRef(f, g, r) == (r \in DOMAIN f <=> r \in DOMAIN g) /\ (r \in DOMAIN f => f[r] = g[r])

\* C9: reconciling tree X deletes every stored ref X/b whose branch b is not
\* in the branch map, and no ref whose name does not start with "X/" is added,
\* changed or deleted.
C9_PrunesOnlyOwnRefs ==
    [][Reconciled' =>
        /\ \A r \in DOMAIN reffile :
              (StartsWith(r, TreePrefix(last'.tree))
               /\ BranchPart(last'.tree, r) \notin DOMAIN last'.bmap) => r \notin DOMAIN reffile'
        /\ \A r \in DOMAIN reffile \cup DOMAIN reffile' :
              ~StartsWith(r, TreePrefix(last'.tree)) => SameRef(reffile, reffile', r)]_vars

\* C10: after a reconciliation every branch of the map that is not excluded
\* (a RELBRANCH of a tree that is no release tree) and has a head is stored as
\* tree/branch, pointing to the last head listed for it.
C10_LastHeadWins ==
    Reconciled =>
        \A b \in DOMAIN last.bmap :
            (last.bmap[b] # <<>> /\ ~(EndsWith(b, <<"RELBRANCH">>) /\ last.tree \notin RELEASES)) =>
                /\ TreePrefix(last.tree) \o b \in DOMAIN reffile
                /\ reffile[TreePrefix(last.tree) \o b] = last.bmap[b][Len(last.bmap[b])]

\* A branch with two different heads, stored with the second one.
C10_Witness ==
    /\ Reconciled
    /\ \E b \in DOMAIN last.bmap :
          /\ Len(last.bmap[b]) = 2 /\ last.bmap[b][1] # last.bmap[b][2]
          /\ reffile[TreePrefix(last.tree) \o b] = last.bmap[b][2]
    /\ \E r \in DOMAIN reffile : ~StartsWith(r, TreePrefix(last.tree))

RefsUnder(f, t) == [r \in {x \in DOMAIN f : StartsWith(x, TreePrefix(t))} |-> f[r]]

ListedRefs(t, bmap) ==
    [r \in {TreePrefix(t) \o b : b \in {x \in DOMAIN bmap :
                bmap[x] # <<>> /\ ~(EndsWith(x, <<"RELBRANCH">>) /\ t \notin RELEASES)}}
        |-> bmap[BranchPart(t, r)][Len(bmap[BranchPart(t, r)])]]

\* C11: the refs stored under tree/ are those of the branch map of the tree's
\* most recent reconciliation and nothing else: a reconciliation of the tree
\* leaves under tree/ exactly the names and targets its branch map gives, and
\* they stay so until the tree is reconciled again.
C11_LatestMapOnly ==
    [][Reconciled' =>
        \A t \in REPOS :
            RefsUnder(reffile', t) = IF t = last'.tree THEN ListedRefs(t, last'.bmap)
                                     ELSE RefsUnder(reffile, t)]_vars

(***************************************************************************)
(* Properties of release branches (SpecRel)                                *)
(***************************************************************************)
IsRelBranchName(x) == EndsWith(x, <<"RELBRANCH">>)

\* C12: after the reconciliation of a tree that is no release tree the file
\* holds no ref of that tree whose branch ends with RELBRANCH, whether the map
\* lists one or one was stored before; after the reconciliation of a release
\* tree a RELBRANCH branch of the map is stored with its last head and one
\* missing from the map is not stored.
C12_RelBranchOnlyForReleases ==
    Reconciled =>
        IF last.tree \notin RELEASES
        THEN \A r \in DOMAIN reffile :
                StartsWith(r, TreePrefix(last.tree)) => ~IsRelBranchName(r)
        ELSE /\ \A b \in DOMAIN last.bmap :
                   (IsRelBranchName(b) /\ last.bmap[b] # <<>>) =>
                       /\ TreePrefix(last.tree) \o b \in DOMAIN reffile
                       /\ reffile[TreePrefix(last.tree) \o b] = last.bmap[b][Len(last.bmap[b])]
             /\ \A r \in DOMAIN reffile :
                   (StartsWith(r, TreePrefix(last.tree)) /\ IsRelBranchName(r)) =>
                       BranchPart(last.tree, r) \in DOMAIN last.bmap

\* The tree that is no release tree was reconciled with a map that lists a
\* RELBRANCH branch: the ref stored before is gone, none was stored, and the
\* release tree's RELBRANCH ref is still there.
C12_Witness ==
    /\ Reconciled
    /\ last.tree = "b2g18"
    /\ \E b \in DOMAIN last.bmap : IsRelBranchName(b)
    /\ TreePrefix("b2g18") \o Default \in DOMAIN reffile
    /\ \A r \in DOMAIN reffile : StartsWith(r, TreePrefix("b2g18")) => ~IsRelBranchName(r)
    /\ \E r \in DOMAIN reffile : StartsWith(r, TreePrefix("beta")) /\ IsRelBranchName(r)

(***************************************************************************)
(* Properties of concurrent reconciliations (SpecConc)                     *)
(***************************************************************************)
BothDone ==
    /\ \A p \in Procs : proc[p].pc = "done"
    /\ \A p, q \in Procs : p # q => proc[p].url # proc[q].url

\* C13: when two processes have reconciled two different trees, in whatever
\* order the write lock let them, the file holds the result of both: under
\* each tree exactly the refs of that process's branch map.
C13_NoLostUpdate ==
    BothDone =>
        \A p \in Procs :
            RefsUnder(reffile, resolve_uri_to_tree(proc[p].url))
                = ListedRefs(resolve_uri_to_tree(proc[p].url), proc[p].bmap)

(***************************************************************************)
(* Properties of release versions (SpecVer)                                *)
(***************************************************************************)
\* A lookup has just computed the partition of its kind from these versions.
Computed == last.op = "template" /\ last.fresh

InclusiveAncestorRevs(n) == {RevOf(changelog, a) : a \in Ancestors(n)}

\* C14: _earliest_version_ancestors gives one revision set per version, the
\* sets are pairwise disjoint, and together they are the inclusive ancestors
\* of all the versions' heads.
C14_Partition ==
    Computed =>
        LET part == session.cache[last.arg]
        IN /\ DOMAIN part = DOMAIN last.versions
           /\ \A v, w \in DOMAIN part : v # w => part[v] \cap part[w] = {}
           /\ UNION {part[v] : v \in DOMAIN part}
                = UNION {InclusiveAncestorRevs(last.versions[v].node) : v \in DOMAIN last.versions}

\* Two versions whose heads share an ancestor, each with a set of its own.
C14_Witness ==
    /\ Computed
    /\ \E v, w \in DOMAIN last.versions :
          /\ v # w
          /\ InclusiveAncestorRevs(last.versions[v].node)
                \cap InclusiveAncestorRevs(last.versions[w].node) # {}
          /\ session.cache[last.arg][v] # {}
          /\ session.cache[last.arg][w] # {}

\* The number a string of digits writes; the empty string counts as 0.
RECURSIVE Num(_)
Num(ds) == IF ds = <<>> THEN 0 ELSE Num(SubSeq(ds, 1, Len(ds) - 1)) * 10 + (CharCode(ds[Len(ds)]) - 48)

\* Version-number ordering: by major, then minor, a beta before the release,
\* then by the beta's number.
VersionBefore(e, f) ==
    LET a == <<Num(e.major), Num(e.minor), IF e.marker THEN 0 ELSE 1, Num(e.after)>>
        b == <<Num(f.major), Num(f.minor), IF f.marker THEN 0 ELSE 1, Num(f.after)>>
    IN \E i \in 1..4 : a[i] < b[i] /\ \A j \in 1..(i - 1) : a[j] = b[j]

\* C15: the first release of a changeset is the lowest version, in
\* version-number ordering, among the versions whose head has the changeset
\* as an inclusive ancestor, and none when no head reaches it.
C15_LowestVersion ==
    Computed =>
        LET reach == {v \in DOMAIN last.versions : last.ctx \in Ancestors(last.versions[v].node)}
        IN IF reach = {} THEN ~last.value.some
           ELSE /\ last.value.some
                /\ last.value.version \in reach
                /\ \A w \in reach \ {last.value.version} :
                      VersionBefore(last.versions[last.value.version], last.versions[w])

CurrentVersions(what) == release_versions(LoadRefs(reffile, changelog), <<what, "/">>)

\* C16: in one session the partition of a release kind is computed at most
\* once, by the first lookup of that kind, and every later lookup of the kind
\* leaves the cache as it is and answers from it; a new session starts with
\* nothing cached, and what it first computes comes from the refs as they are
\* then.
C16_OncePerSession ==
    [][/\ \A k \in ReleaseKinds :
             /\ session'.computed[k] <= 1
             /\ (k \in DOMAIN session'.cache) <=> (session'.computed[k] = 1)
       /\ last'.op = "session" => session'.cache = NoSession.cache
       /\ last'.op = "template" =>
             IF last'.arg \in DOMAIN session.cache
             THEN /\ ~last'.fresh
                  /\ session'.cache = session.cache
                  /\ last'.value = FirstVersionIn(session.cache[last'.arg],
                                                  RevOf(changelog, last'.ctx))
             ELSE /\ last'.fresh
                  /\ session'.computed[last'.arg] = 1
                  /\ DOMAIN session'.cache = DOMAIN session.cache \cup {last'.arg}
                  /\ \A k \in DOMAIN session.cache : session'.cache[k] = session.cache[k]
                  /\ ~session.refs.loaded => last'.versions = CurrentVersions(last'.arg)]_vars

\* A lookup answered from the cache although the refs have changed since the
\* partition was computed.
C16_Witness ==
    /\ last.op = "template"
    /\ ~last.fresh
    /\ last.value.some
    /\ session.computed[last.arg] = 1
    /\ DOMAIN session.cache[last.arg] # DOMAIN CurrentVersions(last.arg)

(***************************************************************************)
(* Properties of the pushlog queries (SpecQuery)                           *)
(***************************************************************************)
HeadOfRow(r) == r.nodes[Len(r.nodes)]

ResolvableRows(t) == {r \in pushes.rows : r.tree = t /\ HeadOfRow(r) \in Known(changelog)}

\* C17: pushhead(T) yields the head of every stored push of T whose head is
\* known locally, in ascending push-id order, and that order is ascending
\* revision order as well; pushes whose head is unknown are left out.
C17_PushHeadsAscending ==
    (last.op = "pushhead" /\ last.returned) =>
        /\ Len(last.out) = Cardinality(ResolvableRows(last.tree))
        /\ \A r \in ResolvableRows(last.tree) :
              last.out[Cardinality({q \in ResolvableRows(last.tree) : q.pushid < r.pushid}) + 1]
                = RevOf(changelog, HeadOfRow(r))
        /\ \A i, j \in DOMAIN last.out : i < j => last.out[i] < last.out[j]

\* C18: pushhead() selects exactly the changesets of the subset that are the
\* head of at least one stored push, of whatever tree; a changeset that is in
\* pushes only as a member below the head is not selected.
C18_PushHeadAnyTree ==
    last.op = "pushhead()" =>
        last.selected = {r \in last.subset :
                            \E row \in pushes.rows : HeadOfRow(row) = changelog[r + 1]}

\* The subset holds a head that is selected, a head's fellow member that is
\* not, and leaves out another head.
C18_Witness ==
    /\ last.op = "pushhead()"
    /\ last.selected # {}
    /\ \E r \in last.subset \ last.selected :
          \E row \in pushes.rows : changelog[r + 1] \in Range(row.nodes)
    /\ \E r \in AllRevs(changelog) \ last.subset :
          \E row \in pushes.rows : HeadOfRow(row) = changelog[r + 1]

RowsWith(n) == {r \in pushes.rows : n \in Range(r.nodes)}

EarliestRows(n) == {r \in RowsWith(n) : \A q \in RowsWith(n) : r.when <= q.when}

C20_HeadElementOnly ==
    /\ last.op = "firstpushdate" =>
          last.selected =
              {r \in last.subset :
                  /\ pushes_for_changeset(pushes, changelog[r + 1]) # <<>>
                  /\ last.date.lo <= pushes_for_changeset(pushes, changelog[r + 1])[1].when
                  /\ pushes_for_changeset(pushes, changelog[r + 1])[1].when <= last.date.hi}
    /\ last.op = "firstpushtree" =>
          IF last.tree \in REPOS
          THEN /\ last.returned
               /\ last.selected =
                     {r \in last.subset :
                         /\ pushes_for_changeset(pushes, changelog[r + 1]) # <<>>
                         /\ pushes_for_changeset(pushes, changelog[r + 1])[1].tree = last.tree}
          ELSE ~last.returned /\ last.raised = "Abort" /\ last.selected = {}

\* A changeset is left out although a later element of its pushes matches
\* the date, and another is selected.
C20_Witness ==
    /\ last.op = "firstpushdate"
    /\ last.selected # {}
    /\ \E r \in last.subset \ last.selected :
          \E row \in RowsWith(changelog[r + 1]) :
              last.date.lo <= row.when /\ row.when <= last.date.hi

\* C21: pushdate(D) selects a changeset of the subset iff at least one of its
\* recorded pushes, on any tree and wherever it stands among the changeset's
\* pushes, has a timestamp that matches D; a changeset with no recorded push
\* is never selected.
C21_PushDateAnyPush ==
    last.op = "pushdate" =>
        last.selected =
            {r \in last.subset :
                \E row \in RowsWith(changelog[r + 1]) :
                    last.date.lo <= row.when /\ row.when <= last.date.hi}

\* pushdate selects a changeset whose matching push is not the first of its
\* pushes, and leaves out a changeset of the subset.
C21_Witness ==
    /\ last.op = "pushdate"
    /\ last.subset \ last.selected # {}
    /\ \E r \in last.selected :
          LET ps == pushes_for_changeset(pushes, changelog[r + 1])
          IN Len(ps) > 1 /\ ~(last.date.lo <= ps[1].when /\ ps[1].when <= last.date.hi)

\* C30: over one store, one date spec D and one input subset, every changeset
\* that firstpushdate(D) selects is selected by pushdate(D) too.
C30_FirstImpliesAny ==
    /\ last.op = "firstpushdate" =>
          last.selected \subseteq
              {r \in last.subset : pushdate_fltr(pushes, changelog, last.date, r)}
    /\ last.op = "pushdate" =>
          {r \in last.subset : firstpushdate_fltr(pushes, changelog, last.date, r)}
              \subseteq last.selected

\* firstpushdate has selected a changeset, and pushdate with the same date
\* spec and subset selects it and another one that firstpushdate leaves out.
C30_Witness ==
    /\ last.op = "firstpushdate"
    /\ last.selected # {}
    /\ \E r \in last.subset \ last.selected : pushdate_fltr(pushes, changelog, last.date, r)

\* C22: tree(T) fails without a revision for a tree that is not known; for a
\* known tree whose head ref T/default is stored it returns exactly the
\* members of the input subset that are ancestors, itself included, of the
\* changeset that ref points to.
C22_TreeAncestors ==
    last.op = "tree" =>
        IF last.tree \notin REPOS
        THEN ~last.returned /\ last.raised = "Abort" /\ last.out = <<>>
        ELSE RefName(last.tree, Default) \in DOMAIN LoadRefs(reffile, changelog) =>
                /\ last.returned
                /\ last.selected =
                      {r \in last.subset :
                          changelog[r + 1] \in
                              Ancestors(LoadRefs(reffile, changelog)[RefName(last.tree, Default)])}

NoArgPredicates == {"dontbuild", "me", "nobug", "reviewed"}

\* C23: bug() with an argument that is no integer, and dontbuild(), me(),
\* nobug() and reviewed() with any argument, end with a parse error that
\* carries a message, and no revision of the subset has been evaluated.
C23_MalformedArgsRejected ==
    /\ (last.op = "bug" /\ ~(last.x.kind \in {"string", "symbol"} /\ last.x.val # <<>>
                                /\ \A i \in DOMAIN last.x.val : last.x.val[i] \in Digits)) =>
          /\ last.raised = "ParseError" /\ ~last.returned
          /\ last.msg # NoMsg
          /\ last.evaluated = {} /\ last.out = <<>>
    /\ (last.op \in NoArgPredicates /\ last.x.kind # "none") =>
          /\ last.raised = "ParseError" /\ ~last.returned
          /\ last.msg # NoMsg
          /\ last.evaluated = {} /\ last.out = <<>>

\* reviewed() was called with an argument on a subset with a reviewed changeset.
C23_Witness ==
    /\ last.op = "reviewed"
    /\ last.x.kind = "symbol"
    /\ \E r \in last.subset : parse_reviewers(changelog[r + 1]) # {}
    /\ last.raised = "ParseError"

FilteringPredicates ==
    {"bug", "dontbuild", "me", "nobug", "reviewer", "reviewed", "firstpushdate", "pushdate",
     "firstpushtree", "pushhead()", "tree"}

BugWipe == last.op = "buginfo" /\ last.arg = "reset" /\ ~last.disabled

BugSync == last.op = "buginfo" /\ last.arg = "sync" /\ ~last.disabled

\* C25: every step but the bug reset keeps every association there is; a bug
\* sync right after a bug sync or a bug reset over the same changesets, and a
\* pull that brings nothing new, leave the relation as it is.
C25_BugsGrowIdempotent ==
    [][/\ ~BugWipe' => bugs \subseteq bugs'
       /\ ((BugSync \/ BugWipe) /\ BugSync') => bugs' = bugs
       /\ (last'.op = "pull" /\ last'.orig = 0) => bugs' = bugs]_vars

\* A bug sync ran right after a bug sync while the relation holds an
\* association of a changeset that is no longer in the repository.
C25_Witness ==
    /\ BugSync
    /\ bugs # {}
    /\ \E pair \in bugs : pair[1] \notin Known(changelog)
    /\ AllBugs(changelog) # {}

\* C26: the pushlog reset leaves no push row and changes neither the bug
\* relation nor the remote refs; the bug reset changes neither the pushes nor
\* the remote refs and leaves exactly the associations that the descriptions
\* of the local changesets give.
C26_ResetsIndependent ==
    [][/\ (last'.op = "pushlogsync" /\ last'.arg = "reset" /\ ~last'.disabled) =>
             /\ pushes'.rows = {}
             /\ bugs' = bugs /\ reffile' = reffile
       /\ BugWipe' =>
             /\ pushes' = pushes /\ reffile' = reffile
             /\ bugs' = {<<n, b>> \in Known(changelog) \X {7, 8} : b \in parse_bugs(n)}]_vars

\* The pushlog reset has emptied a store that had rows, while associations
\* and refs are stored.
C26_Witness ==
    /\ bugs # {} /\ DOMAIN reffile # {}
    /\ last.op = "pushlogsync" /\ last.arg = "reset" /\ ~last.disabled
    /\ last.pre.pushes.rows # {} /\ pushes.rows = {}

\* C27: after a pull with the index enabled every changeset the pull added,
\* from the first new revision to the last, is associated with every bug its
\* description references.
C27_NewChangesetsIndexed ==
    (last.op = "pull" /\ last.returned /\ ~last.disabled) =>
        \A i \in (Len(changelog) - last.orig + 1)..Len(changelog) :
            \A b \in parse_bugs(changelog[i]) : <<changelog[i], b>> \in bugs

\* C28 as stated: with the setting on, a push to a key is rejected iff the
\* key's name begins with the name of a known repository.
C28_Original ==
    (last.op = "pushkey" /\ last.hooked) =>
        (~last.returned <=> \E t \in REPOS : StartsWith(last.key, TreeName(t)))

\* C28 amended: with the setting on, a push to a key of any namespace is
\* rejected iff the key's name, in lower case, begins with the name of a known
\* repository, whatever follows the name; with the setting off no push is
\* rejected.
C28_Amended ==
    last.op = "pushkey" =>
        /\ last.hooked =>
              (~last.returned <=> \E t \in REPOS : StartsWith(lower(last.key), TreeName(t)))
        /\ ~last.hooked => last.returned
        /\ ~last.returned => last.warnings # <<>>

\* With the setting on, a key whose name begins with a repository's name only
\* after lower-casing, and without a slash after it, was rejected.
C28_Witness ==
    /\ last.op = "pushkey" /\ last.hooked
    /\ last.key = <<"Central", "ized">>
    /\ ~last.returned

\* How many of the remote's first pushes list only changesets known locally.
KnownPrefix(t, rl) ==
    SetMax({k \in 0..rl[t] :
               \A i \in 1..k : Range(FullLog(t)[i].nodes) \subseteq Known(changelog)})

\* C29: at every moment the pushes stored for a tree are a gap-free prefix of
\* what the remote serves from the first fetch point, and a sync that the
\* remote answers in full leaves stored every push up to the first one that
\* lists a changeset still unknown locally: the records an earlier, truncated
\* sync dropped are stored once their changesets are there.
C29_DroppedRecordsRecovered ==
    /\ \A t \in REPOS : \E k \in 0..rlen[t] : RowsOf(pushes, t) = LogRows(t, k)
    /\ (Requested /\ last.kind = "ok" /\ last.raised = "none") =>
          /\ last.requests[1].firstpush > 0 =>
                last.requests[1].firstpush =
                    SetMax({r.pushid : r \in RowsOf(last.pre.pushes, last.tree)}) + 1
          /\ RowsOf(pushes, last.tree) = LogRows(last.tree, KnownPrefix(last.tree, last.rl))

\* beta's remote had all its pushes from the start; an earlier sync stored
\* only some of them, and this sync has stored the rest.
C29_Witness ==
    /\ Requested /\ last.tree = "beta" /\ last.raised = "none"
    /\ RowsOf(last.pre.pushes, "beta") # {}
    /\ last.added > 0
    /\ RowsOf(pushes, "beta") = LogRows("beta", Len(FullLog("beta")))

====
